---- MODULE Spec2Model ----
(***************************************************************************)
(* Stream-Links-Harvester: the rate limiter (browser_client.RateLimiter),  *)
(* the page-fetch session (browser_client.BrowserClient), the extraction   *)
(* pipeline (extractor.py) and the batch orchestration (main.py).          *)
(*                                                                         *)
(* All coroutines run on one asyncio event loop: the code between two      *)
(* awaits that suspend runs without interleaving, so every action below is *)
(* one such stretch of code of one task.                                   *)
(***************************************************************************)
EXTENDS Integers, Sequences, FiniteSets, TLC

VARIABLES
    \* ---- RateLimiter (browser_client.py 14-53)
    now,                      \* the clock read by time.time(), in seconds
    delay_between_requests,   \* RateLimiter.delay_between_requests
    max_requests_per_minute,  \* RateLimiter.max_requests_per_minute
    request_times,            \* RateLimiter.request_times
    lock,                     \* holder of RateLimiter.lock, NoTask when free
    waiters,                  \* FIFO queue of tasks suspended in lock.acquire()
    pc,                       \* position of every task
    current_time,             \* the local current_time of wait_for_request
    wake,                     \* time at which a task's asyncio.sleep is due
    completions,              \* history: every timestamp ever recorded (line 53)
    slept,                    \* history: which sleeps each task went through
    \* ---- one run of extract_download_url (extractor.py 12-51)
    ex_page,                  \* the page handed to the pipeline
    ex_xhr,                   \* the xhr_responses handed to the pipeline
    ex_pc,                    \* the strategy about to run, or "done" / "raised"
    ex_result,                \* the value returned
    ex_warned,                \* whether the warning of line 50 was logged
    ex_static,                \* what the static selector scan returned
    ex_clicked,               \* the selectors whose element the scan clicked
    \* ---- BrowserClient (browser_client.py 56-166) and main (main.py 125-135)
    browser,                  \* BrowserClient.browser, 0 for None
    context,                  \* BrowserClient.context, 0 for None
    xhr_responses,            \* BrowserClient.xhr_responses, keys in insertion order
    fpc,                      \* position of every fetch_and_extract call
    page_handle,              \* the page handle of every fetch: none, open, closed
    page_dom,                 \* the page a pipeline goes on with after its static scan
    captured,                 \* history: the URLs the listener of a fetch stored
    handed,                   \* history: xhr_responses as the pipeline of a fetch read it
    owned,                    \* history: captured, at the moment of that read
    xhr_read,                 \* history: whether the pipeline of a fetch read the dict
    fres,                     \* the value fetch_and_extract returns
    fexc,                     \* the step whose exception leaves fetch_and_extract
    failed,                   \* history: the steps of a fetch that raised
    task_result,              \* what process_url returned for every URL
    download_urls,            \* main's download_urls
    main_pc,                  \* position of main
    main_raised,              \* whether gather raised into main
    page_context,             \* the context each fetch asked for its page, 0 for none
    unique_links,             \* main's unique_links
    exit_code,                \* the status the process exits with, -1 while running
    \* ---- the resources behind a BrowserClient (browser_client.py 82-97)
    drivers_running,          \* Playwright drivers started and not stopped
    launched,                 \* browsers launched so far; the k-th has id k
    contexts_created,         \* browser contexts created so far
    open_browsers,            \* ids of the browsers that are open
    open_contexts,            \* ids (of their browser) of the contexts that are open
    init_calls,               \* history: calls of initialize()
    cleanup_calls,            \* history: calls of cleanup()
    last_call,                \* history: the call that ended last, and how
    init_pc,                  \* per caller: the await its initialize() is suspended at
    init_browser,             \* per caller: the browser its initialize() launched
    closing,                  \* per caller: the browser its cleanup() is closing
    \* ---- the pure functions (extractor.py 237-259, utils.py 13-31)
    v_url,                    \* the argument of _is_valid_download_url
    v_valid,                  \* its result
    v_pc,
    d_links,                  \* the argument of deduplicate_links
    d_result,                 \* its result
    d_pc,
    \* ---- one call of a function wrapped by retry (utils.py 34-106)
    r_max_retries,            \* max_retries
    r_retry_delay,            \* retry_delay
    r_retryable,              \* the error kinds in `exceptions`
    r_attempt,                \* the loop variable attempt
    r_pc,                     \* call, sleep, returned, raised
    r_calls,                  \* history: outcome of every invocation of func
    r_waits,                  \* history: wait_time of every asyncio.sleep
    r_last_exception,         \* last_exception
    r_result,                 \* what the wrapper returned or raised
    \* ---- the time one URL takes (browser_client.py 127-138, extractor.py 81-90)
    b_timeout,                \* self.timeout, in seconds
    b_pc,                     \* off, goto, scan, done, failed
    b_navigated,              \* ms the goto call took
    b_budget,                 \* the timeout handed to the pipeline, in seconds
    b_selector,               \* index of the selector the scan waits for next
    b_waited                  \* ms spent in wait_for_selector so far

rlvars == <<now, delay_between_requests, max_requests_per_minute, request_times,
            lock, waiters, pc, current_time, wake, completions, slept>>

exvars == <<ex_page, ex_xhr, ex_pc, ex_result, ex_warned, ex_static, ex_clicked>>

fetchvars == <<browser, context, xhr_responses, fpc, page_handle, page_dom,
               captured, handed, owned, xhr_read, fres, fexc, failed, task_result,
               download_urls, main_pc, main_raised, page_context>>

outvars == <<unique_links, exit_code>>

resvars == <<drivers_running, launched, contexts_created, open_browsers,
             open_contexts, init_calls, cleanup_calls, last_call,
             init_pc, init_browser, closing>>

purevars == <<v_url, v_valid, v_pc, d_links, d_result, d_pc>>

retryvars == <<r_max_retries, r_retry_delay, r_retryable, r_attempt, r_pc,
               r_calls, r_waits, r_last_exception, r_result>>

budgetvars == <<b_timeout, b_pc, b_navigated, b_budget, b_selector, b_waited>>

utilvars == <<purevars, retryvars, budgetvars>>

\* Everything but the rate limiter.
nonrlvars == <<exvars, fetchvars, outvars, resvars, utilvars>>

\* Everything but the pipeline run.
nonexvars == <<rlvars, fetchvars, outvars, resvars, utilvars>>

\* What a step of a fetch leaves alone besides the client's own fields.
besidefetch == <<rlvars, exvars, outvars, resvars, utilvars, page_context>>

vars == <<rlvars, exvars, fetchvars, outvars, resvars, utilvars>>

\* ------------------------------------------------------------------ bounds

NumTasks == 4
NumFetches == 2
MaxTime == 130
MaxCap == 2
MaxLinks == 4
MaxRetries == 3
MaxCalls == 4
MaxTimeout == 2

Tasks == 1..NumTasks
NoTask == 0

\* Amounts by which the clock advances between two steps of the event loop.
TickSizes == {10}
\* Configured minimum delays: none, shorter than the window, longer than it.
Delays == {0, 10, 70}
Caps == 0..MaxCap

\* ------------------------------------------------------------ RateLimiter

\* browser_client.py 36, 42: the literal 60 of the pruning window.
Window == 60

Max2(a, b) == IF a >= b THEN a ELSE b

SeqMin(s) == CHOOSE m \in {s[i] : i \in DOMAIN s} : \A j \in DOMAIN s : m <= s[j]
SeqMax(s) == CHOOSE m \in {s[i] : i \in DOMAIN s} : \A j \in DOMAIN s : m >= s[j]

\* line 36-37: keep the timestamps strictly younger than 60 seconds.
Prune(rt, t) ==
    LET one_minute_ago == t - Window
        Keep(x) == x > one_minute_ago
    IN  SelectSeq(rt, Keep)

\* line 40, a caller that admits one request too many.
CapReachedOffByOne(rt) == Len(rt) > max_requests_per_minute

\* line 40: the cap test on the pruned window.
CapReached(rt) == Len(rt) >= max_requests_per_minute

\* line 41-42: the cap wait, from the oldest timestamp of the pruned window.
CapSleepTime(rt, ct) == Max2(Window - (ct - SeqMin(rt)), 0)

\* line 46-49: whether the delay wait applies; ct is the value read at line 33.
DelayNeeded(rt, ct) ==
    /\ rt # <<>>
    /\ ct - SeqMax(rt) < delay_between_requests

\* line 50: the delay wait.
DelaySleepTime(rt, ct) == delay_between_requests - (ct - SeqMax(rt))

\* line 28, 32, a lock that admits everybody.
LockAvailableAlways == TRUE

\* asyncio.Lock.acquire: taken at once only when free with nobody queued.
LockAvailable == lock = NoTask /\ waiters = <<>>

\* line 53, a critical section that is never left.
RecordKeepsLock(c, rt) ==
    /\ request_times' = Append(rt, now)
    /\ completions' = Append(completions, now)
    /\ lock' = c
    /\ pc' = [pc EXCEPT ![c] = "acquired"]
    /\ UNCHANGED wake

\* line 53 and the end of `async with`: record time.time(), release the lock.
Record(c, rt) ==
    /\ request_times' = Append(rt, now)
    /\ completions' = Append(completions, now)
    /\ lock' = NoTask
    /\ pc' = [pc EXCEPT ![c] = "acquired"]
    /\ UNCHANGED wake

\* line 46-53: the delay phase, entered with the stale current_time ct.
DelayPhase(c, rt, ct) ==
    IF DelayNeeded(rt, ct)
    THEN /\ pc' = [pc EXCEPT ![c] = "delay_sleep"]
         /\ wake' = [wake EXCEPT ![c] = now + DelaySleepTime(rt, ct)]
         /\ slept' = [slept EXCEPT ![c] = @ \cup {"delay"}]
         /\ request_times' = rt
         /\ lock' = c
         /\ UNCHANGED completions
    ELSE /\ Record(c, rt)
         /\ UNCHANGED slept

\* line 32-53 up to the first suspension, run by the task that gets the lock.
Enter(c) ==
    LET rt == Prune(request_times, now) IN
    /\ current_time' = [current_time EXCEPT ![c] = now]
    /\ IF CapReached(rt)
       THEN IF rt = <<>>
            THEN \* min() of an empty list raises ValueError; the lock is released
                 /\ pc' = [pc EXCEPT ![c] = "gate_raised"]
                 /\ request_times' = rt
                 /\ lock' = NoTask
                 /\ UNCHANGED <<wake, completions, slept>>
            ELSE /\ pc' = [pc EXCEPT ![c] = "cap_sleep"]
                 /\ wake' = [wake EXCEPT ![c] = now + CapSleepTime(rt, now)]
                 /\ slept' = [slept EXCEPT ![c] = @ \cup {"cap"}]
                 /\ request_times' = rt
                 /\ lock' = c
                 /\ UNCHANGED completions
       ELSE DelayPhase(c, rt, now)

\* A task calls wait_for_request (line 30): it runs on if the lock is free,
\* else it queues behind the lock. Tasks are started in index order, as
\* asyncio.gather starts them (main.py 128-129).
WaitForRequest(c) ==
    /\ pc[c] = "idle"
    /\ \A d \in Tasks : d < c => pc[d] # "idle"
    /\ IF LockAvailable
       THEN Enter(c) /\ UNCHANGED waiters
       ELSE /\ waiters' = Append(waiters, c)
            /\ pc' = [pc EXCEPT ![c] = "waiting"]
            /\ UNCHANGED <<request_times, lock, current_time, wake, completions, slept>>
    /\ UNCHANGED <<now, delay_between_requests, max_requests_per_minute>>

\* wait_for_request called on its own.
Call(c) == WaitForRequest(c) /\ UNCHANGED nonrlvars

\* The first queued task is woken by the release and takes the lock.
Grant(c) ==
    /\ pc[c] = "waiting"
    /\ lock = NoTask
    /\ waiters # <<>> /\ Head(waiters) = c
    /\ waiters' = Tail(waiters)
    /\ Enter(c)
    /\ UNCHANGED <<now, delay_between_requests, max_requests_per_minute>>
    /\ UNCHANGED nonrlvars

\* line 43 returns: the cap sleep is over, the delay phase follows with the
\* current_time read before the sleep.
WakeCap(c) ==
    /\ pc[c] = "cap_sleep"
    /\ now >= wake[c]
    /\ DelayPhase(c, request_times, current_time[c])
    /\ UNCHANGED <<now, delay_between_requests, max_requests_per_minute,
                   waiters, current_time>>
    /\ UNCHANGED nonrlvars

\* line 50 returns: the delay sleep is over, the timestamp is recorded.
WakeDelay(c) ==
    /\ pc[c] = "delay_sleep"
    /\ now >= wake[c]
    /\ Record(c, request_times)
    /\ UNCHANGED <<now, delay_between_requests, max_requests_per_minute,
                   waiters, current_time, slept>>
    /\ UNCHANGED nonrlvars

\* The clock advances while the event loop is idle or busy elsewhere;
\* asyncio.sleep returns no earlier than asked, possibly later.
Tick ==
    /\ \E d \in TickSizes : now' = now + d
    /\ now' <= MaxTime
    /\ UNCHANGED <<delay_between_requests, max_requests_per_minute, request_times,
                   lock, waiters, pc, current_time, wake, completions, slept>>
    /\ UNCHANGED nonrlvars

\* Time passes until the sleep of the caller in the critical section is due
\* (lines 43, 50); the holder of the lock is the only caller that sleeps.
Elapse ==
    /\ \E c \in Tasks :
        /\ pc[c] \in {"cap_sleep", "delay_sleep"}
        /\ wake[c] > now
        /\ now' = wake[c]
    /\ UNCHANGED <<delay_between_requests, max_requests_per_minute, request_times,
                   lock, waiters, pc, current_time, wake, completions, slept>>
    /\ UNCHANGED nonrlvars

InitLimiter(delays, caps) ==
    /\ now = 0
    /\ delay_between_requests \in delays
    /\ max_requests_per_minute \in caps
    /\ request_times = <<>>
    /\ lock = NoTask
    /\ waiters = <<>>
    /\ pc = [c \in Tasks |-> "idle"]
    /\ current_time = [c \in Tasks |-> 0]
    /\ wake = [c \in Tasks |-> 0]
    /\ completions = <<>>
    /\ slept = [c \in Tasks |-> {}]

\* -------------------------------------------------------------- extractor

\* Python's None, and the marker of a call that raises an exception. Both
\* are strings no URL equals, so that they compare with attribute values.
None == "<None>"
Raises == "<raises>"

\* Python truthiness of an optional string (`if href and ...`).
Truthy(s) == s # None /\ s # Raises /\ s # ""

\* `pattern in url`
Contains(s, p) ==
    \E i \in 1..(Len(s) - Len(p) + 1) : SubSeq(s, i, i + Len(p) - 1) = p

\* `url.startswith(prefix)`
StartsWith(s, p) == Len(s) >= Len(p) /\ SubSeq(s, 1, Len(p)) = p

\* extractor.py 68-79
selectors ==
    << "a.download-button", "a[data-download]", "a.video-download",
       "a[href*='download']", "a[href*='.mp4']", "a[href*='.m3u8']",
       "a[href*='.mpd']", "button.download-button", "[data-download-url]",
       "[data-video-url]" >>

\* extractor.py 217-222
popup_selectors ==
    << "a.download-link", "a[download]", ".modal a[href*='.mp4']",
       ".popup a[href*='download']" >>

\* extractor.py 255
ValidityPatterns == {".mp4", ".m3u8", ".mpd", "/media/", "/video/", "stream", "download"}

\* extractor.py 141
XhrVideoPatterns == {".mp4", ".m3u8", ".mpd", "/media/", "/video/", "stream"}

\* extractor.py 276-286
video_hosts ==
    {"youtube.com/embed", "player.vimeo.com", "dailymotion.com/embed",
     "streamable.com/e", "jwplayer", "brightcove", "vidyard", "wistia", "videojs"}

\* extractor.py 237-259, a predicate that forgets the scheme check of
\* lines 250-252.
IsValidDownloadUrlAnyScheme(url) ==
    /\ Truthy(url)
    /\ \E p \in ValidityPatterns : Contains(url, p)

\* extractor.py 237-259
IsValidDownloadUrl(url) ==
    /\ Truthy(url)
    /\ StartsWith(url, "http://") \/ StartsWith(url, "https://")
    /\ \E p \in ValidityPatterns : Contains(url, p)

\* extractor.py 262-288
IsIframeVideoSource(url) ==
    /\ Truthy(url)
    /\ \E host \in video_hosts : Contains(url, host)

\* An element handle: the values its get_attribute calls return (a string,
\* None, or Raises when the call fails) and what click() does.
Element(h, d, v, c) ==
    [present |-> TRUE, href |-> h, data_download_url |-> d,
     data_video_url |-> v, click |-> c]

\* No element matches the selector (wait_for_selector times out, line 86;
\* query_selector returns None, line 226).
NoElement ==
    [present |-> FALSE, href |-> None, data_download_url |-> None,
     data_video_url |-> None, click |-> "ok"]

\* extractor.py 224-234: the popup re-scan; a failing read is passed over.
RECURSIVE CheckForPopupLinkFrom(_, _)
CheckForPopupLinkFrom(page, k) ==
    IF k > Len(popup_selectors) THEN None
    ELSE LET element == page.popup[k] IN
         IF element.present /\ element.href # Raises
                            /\ Truthy(element.href)
                            /\ IsValidDownloadUrl(element.href)
         THEN element.href
         ELSE CheckForPopupLinkFrom(page, k + 1)

CheckForPopupLink(page) == CheckForPopupLinkFrom(page, 1)

\* extractor.py 112, a scan that takes every selector for a clickable control.
IsClickableAlways(selector) == TRUE

\* extractor.py 112: the selectors whose element is clicked.
IsClickable(selector) == Contains(selector, "button")

\* extractor.py 83-122: one selector of the static scan. An exception of any
\* call (lines 94, 100, 106, 114) ends this selector with no match (121-122).
TrySelector(page, i) ==
    LET element == page.static[i] IN
    IF ~element.present THEN None
    ELSE IF element.href = Raises THEN None
    ELSE IF Truthy(element.href) /\ IsValidDownloadUrl(element.href)
         THEN element.href
    ELSE IF element.data_download_url = Raises THEN None
    ELSE IF Truthy(element.data_download_url)
            /\ IsValidDownloadUrl(element.data_download_url)
         THEN element.data_download_url
    ELSE IF element.data_video_url = Raises THEN None
    ELSE IF Truthy(element.data_video_url)
            /\ IsValidDownloadUrl(element.data_video_url)
         THEN element.data_video_url
    ELSE IF IsClickable(selectors[i])
         THEN IF element.click = "raise" THEN None
              ELSE CheckForPopupLink(page)
    ELSE None

\* extractor.py 82-125
RECURSIVE TryFindDownloadLinkFrom(_, _)
TryFindDownloadLinkFrom(page, i) ==
    IF i > Len(selectors) THEN None
    ELSE LET r == TrySelector(page, i) IN
         IF Truthy(r) THEN r ELSE TryFindDownloadLinkFrom(page, i + 1)

TryFindDownloadLink(page) == TryFindDownloadLinkFrom(page, 1)

\* extractor.py 91-114: the scan calls click() on the element of selector i.
\* The three attribute reads returned and none passed, and the selector is
\* one of the clickable ones.
ClicksElement(page, i) ==
    LET element == page.static[i] IN
    /\ element.present
    /\ element.href # Raises
    /\ ~(Truthy(element.href) /\ IsValidDownloadUrl(element.href))
    /\ element.data_download_url # Raises
    /\ ~(Truthy(element.data_download_url) /\ IsValidDownloadUrl(element.data_download_url))
    /\ element.data_video_url # Raises
    /\ ~(Truthy(element.data_video_url) /\ IsValidDownloadUrl(element.data_video_url))
    /\ IsClickable(selectors[i])

\* extractor.py 81-125: the selectors the loop reaches (no earlier selector
\* returned) and clicks.
ClickedSelectors(page) ==
    { i \in DOMAIN selectors :
        /\ ClicksElement(page, i)
        /\ \A j \in 1..(i - 1) : ~Truthy(TrySelector(page, j)) }

\* extractor.py 143-149: xhr_responses.values() in insertion order.
RECURSIVE AnalyzeXhrFrom(_, _)
AnalyzeXhrFrom(xhr, i) ==
    IF i > Len(xhr) THEN None
    ELSE IF /\ \E p \in XhrVideoPatterns : Contains(xhr[i], p)
            /\ IsValidDownloadUrl(xhr[i])
         THEN xhr[i]
         ELSE AnalyzeXhrFrom(xhr, i + 1)

AnalyzeXhrResponses(xhr) == AnalyzeXhrFrom(xhr, 1)

\* extractor.py 174-178: the <source> children of one video element; a
\* failing get_attribute (line 175) is not caught.
RECURSIVE SourcesFrom(_, _)
SourcesFrom(sources, j) ==
    IF j > Len(sources) THEN None
    ELSE IF sources[j] = Raises THEN Raises
    ELSE IF Truthy(sources[j]) /\ IsValidDownloadUrl(sources[j]) THEN sources[j]
    ELSE SourcesFrom(sources, j + 1)

\* extractor.py 165-180; a failing get_attribute (line 167) is not caught.
RECURSIVE VideosFrom(_, _)
VideosFrom(videos, i) ==
    IF i > Len(videos) THEN None
    ELSE IF videos[i].src = Raises THEN Raises
    ELSE IF Truthy(videos[i].src) /\ IsValidDownloadUrl(videos[i].src)
         THEN videos[i].src
    ELSE LET s == SourcesFrom(videos[i].sources, 1) IN
         IF s # None THEN s ELSE VideosFrom(videos, i + 1)

ExtractFromVideoSource(page) == VideosFrom(page.videos, 1)

\* extractor.py 196-203; a failing get_attribute (line 198) is not caught.
RECURSIVE IframesFrom(_, _)
IframesFrom(iframes, i) ==
    IF i > Len(iframes) THEN None
    ELSE IF iframes[i] = Raises THEN Raises
    ELSE IF Truthy(iframes[i]) /\ IsIframeVideoSource(iframes[i]) THEN iframes[i]
    ELSE IframesFrom(iframes, i + 1)

ExtractFromIframe(page) == IframesFrom(page.iframes, 1)

\* extractor.py 40-51: the media-element and embedded-frame scans, in this
\* order; Raises when an exception leaves extract_download_url.
ExtractFromDom(page) ==
    LET r3 == ExtractFromVideoSource(page) IN
    IF r3 # None THEN r3 ELSE ExtractFromIframe(page)

\* ---- one run of the pipeline, a strategy per step

\* extractor.py 31-33
ExStatic ==
    /\ ex_pc = "static"
    /\ LET download_url == TryFindDownloadLink(ex_page) IN
       IF Truthy(download_url)
       THEN ex_result' = download_url /\ ex_pc' = "done"
       ELSE ex_result' = ex_result /\ ex_pc' = "xhr"
    /\ ex_static' = TryFindDownloadLink(ex_page)
    /\ ex_clicked' = ClickedSelectors(ex_page)
    /\ UNCHANGED <<ex_page, ex_xhr, ex_warned>>
    /\ UNCHANGED nonexvars

\* extractor.py 36-38
ExXhr ==
    /\ ex_pc = "xhr"
    /\ LET download_url == AnalyzeXhrResponses(ex_xhr) IN
       IF Truthy(download_url)
       THEN ex_result' = download_url /\ ex_pc' = "done"
       ELSE ex_result' = ex_result /\ ex_pc' = "video"
    /\ UNCHANGED <<ex_page, ex_xhr, ex_warned, ex_static, ex_clicked>>
    /\ UNCHANGED nonexvars

\* extractor.py 41-43
ExVideo ==
    /\ ex_pc = "video"
    /\ LET download_url == ExtractFromVideoSource(ex_page) IN
       IF download_url = Raises
       THEN ex_result' = ex_result /\ ex_pc' = "raised"
       ELSE IF Truthy(download_url)
       THEN ex_result' = download_url /\ ex_pc' = "done"
       ELSE ex_result' = ex_result /\ ex_pc' = "iframe"
    /\ UNCHANGED <<ex_page, ex_xhr, ex_warned, ex_static, ex_clicked>>
    /\ UNCHANGED nonexvars

\* extractor.py 46-51
ExIframe ==
    /\ ex_pc = "iframe"
    /\ LET download_url == ExtractFromIframe(ex_page) IN
       IF download_url = Raises
       THEN ex_result' = ex_result /\ ex_pc' = "raised" /\ ex_warned' = ex_warned
       ELSE IF Truthy(download_url)
       THEN ex_result' = download_url /\ ex_pc' = "done" /\ ex_warned' = ex_warned
       ELSE ex_result' = None /\ ex_pc' = "done" /\ ex_warned' = TRUE
    /\ UNCHANGED <<ex_page, ex_xhr, ex_static, ex_clicked>>
    /\ UNCHANGED nonexvars

\* ---- the pages and captured responses the pipeline is run on

UrlStatic == "https://cdn.example.com/video/abc.mp4"
UrlData == "https://cdn.example.com/media/d.mpd"
UrlPopup == "https://cdn.example.com/download/p"
UrlXhr == "https://x/y.m3u8"
UrlXhrDownload == "https://x/download?id=7"
UrlXhrBlob == "blob:https://x/stream/1"
UrlVideo == "https://v.example.com/stream/live"
UrlSource == "http://v.example.com/clip.mp4"
UrlEmbed == "https://www.youtube.com/embed/q1"
UrlVimeo == "https://player.vimeo.com/video/9"
UrlBadScheme == "ftp://cdn.example.com/abc.mp4"
UrlNoMarker == "https://example.com/page.html"

\* Elements matched by "a.download-button".
AnchorElements ==
    { NoElement,
      Element(UrlStatic, None, None, "ok"),
      Element(UrlNoMarker, UrlData, None, "ok"),
      Element(UrlBadScheme, "", UrlStatic, "ok"),
      Element(Raises, UrlData, None, "ok"),
      Element(None, None, Raises, "ok"),
      Element(None, None, None, "ok"),
      Element(UrlNoMarker, None, None, "raise") }

\* Elements matched by "[data-download-url]".
DataElements ==
    { NoElement, Element(None, UrlData, None, "ok"), Element(None, UrlNoMarker, None, "ok") }

\* Elements matched by the popup selector "a.download-link" after a click.
PopupElements ==
    { NoElement, Element(UrlPopup, None, None, "ok"), Element(Raises, None, None, "ok") }

XhrSets == { <<>>, <<UrlXhr>>, <<UrlXhrDownload, UrlXhr>>, <<UrlXhrBlob, UrlXhrDownload>> }

VideoLists ==
    { <<>>,
      << [src |-> UrlVideo, sources |-> <<>>] >>,
      << [src |-> None, sources |-> <<UrlNoMarker, UrlSource>>] >>,
      << [src |-> Raises, sources |-> <<>>] >>,
      << [src |-> "", sources |-> <<Raises, UrlSource>>] >>,
      << [src |-> UrlBadScheme, sources |-> <<>>], [src |-> UrlVideo, sources |-> <<>>] >> }

IframeLists ==
    { <<>>, <<UrlEmbed>>, <<UrlNoMarker, UrlVimeo>>, <<Raises, UrlEmbed>>, <<None, UrlEmbed>> }

MakePage(anchor, data, popup, videos, iframes) ==
    [ static |-> [i \in DOMAIN selectors |->
                    IF i = 1 THEN anchor ELSE IF i = 9 THEN data ELSE NoElement],
      popup |-> [k \in DOMAIN popup_selectors |-> IF k = 1 THEN popup ELSE NoElement],
      videos |-> videos,
      iframes |-> iframes ]

Pages ==
    { MakePage(a, d, p, v, f) :
        a \in AnchorElements, d \in DataElements, p \in PopupElements,
        v \in VideoLists, f \in IframeLists }

EmptyPage == MakePage(NoElement, NoElement, NoElement, <<>>, <<>>)

\* No pipeline is running.
ExtractIdle ==
    /\ ex_page = EmptyPage
    /\ ex_xhr = <<>>
    /\ ex_pc = "off"
    /\ ex_result = None
    /\ ex_warned = FALSE
    /\ ex_static = None
    /\ ex_clicked = {}

\* ------------------------------------------ pure functions, on their inputs

\* utils.py 27, a test that forgets the `seen` set.
FreshLinkIgnoringSeen(link, seen) == Truthy(link)

\* utils.py 27: `if link and link not in seen`
FreshLink(link, seen) == Truthy(link) /\ link \notin seen

\* utils.py 26-29: the loop over links[i..], with the locals seen and result.
RECURSIVE DeduplicateFrom(_, _, _, _)
DeduplicateFrom(links, i, seen, result) ==
    IF i > Len(links) THEN result
    ELSE IF FreshLink(links[i], seen)
         THEN DeduplicateFrom(links, i + 1, seen \cup {links[i]}, Append(result, links[i]))
         ELSE DeduplicateFrom(links, i + 1, seen, result)

\* utils.py 13-31
DeduplicateLinks(links) == DeduplicateFrom(links, 1, {}, <<>>)

\* Arguments for _is_valid_download_url: both schemes with every marker,
\* other schemes, no scheme, no marker, the empty string.
ValidityInputs ==
    { "",
      "https://cdn.example.com/video/abc.mp4",
      "http://cdn.example.com/a.mp4",
      "https://cdn.example.com/live.m3u8",
      "https://cdn.example.com/manifest.mpd",
      "http://cdn.example.com/media/7",
      "https://cdn.example.com/video/7",
      "https://streamcdn.example.com/7",
      "http://cdn.example.com/download?id=7",
      "https://cdn.example.com/page.html",
      "https://cdn.example.com/mp4",
      "https://cdn.example.com/media",
      "http://",
      "https://",
      "ftp://cdn.example.com/video/abc.mp4",
      "HTTPS://cdn.example.com/a.mp4",
      "//cdn.example.com/a.mp4",
      "/video/abc.mp4",
      " https://cdn.example.com/a.mp4",
      "blob:https://cdn.example.com/stream",
      "javascript:download()",
      "httpx://cdn.example.com/a.mp4",
      "download",
      "cdn.example.com/http://a.mp4" }

\* The strings of the link lists; the empty string is a link that is skipped.
LinkAlphabet == {"a", "b", "c", ""}

RECURSIVE SeqsUpTo(_, _)
SeqsUpTo(S, n) ==
    IF n = 0 THEN {<<>>}
    ELSE LET shorter == SeqsUpTo(S, n - 1)
         IN  shorter \cup {Append(q, x) : q \in {t \in shorter : Len(t) = n - 1}, x \in S}

\* Arguments for deduplicate_links.
LinkLists == SeqsUpTo(LinkAlphabet, MaxLinks)

\* extractor.py 237-259: one call of _is_valid_download_url.
CheckValid ==
    /\ v_pc = "call"
    /\ v_valid' = IsValidDownloadUrl(v_url)
    /\ v_pc' = "done"
    /\ UNCHANGED <<v_url, d_links, d_result, d_pc>>
    /\ UNCHANGED <<rlvars, exvars, fetchvars, outvars, resvars, retryvars, budgetvars>>

\* utils.py 13-31: one call of deduplicate_links.
Deduplicate ==
    /\ d_pc = "call"
    /\ d_result' = DeduplicateLinks(d_links)
    /\ d_pc' = "done"
    /\ UNCHANGED <<d_links, v_url, v_valid, v_pc>>
    /\ UNCHANGED <<rlvars, exvars, fetchvars, outvars, resvars, retryvars, budgetvars>>

\* No pure function is being called.
PureIdle ==
    /\ v_url = "" /\ v_valid = FALSE /\ v_pc = "off"
    /\ d_links = <<>> /\ d_result = <<>> /\ d_pc = "off"

\* ------------------------------------------------------------ utils.retry

\* The kinds of exception the wrapped function raises.
ErrorKinds == {"TimeoutError", "ValueError"}

\* Values of the `exceptions` parameter: (Exception,) and (TimeoutError,).
RetryableSets == {ErrorKinds, {"TimeoutError"}}

\* Values of max_retries; with -1 the loop of line 58 has no iteration.
RetryMaxes == (-1)..MaxRetries

\* Values of retry_delay, in seconds.
RetryDelays == {1, 3}

\* utils.py 64, a wait without backoff.
WaitTimeConstant(retry_delay, attempt) == retry_delay

\* utils.py 64: wait_time = retry_delay * (2 ** attempt)
WaitTime(retry_delay, attempt) == retry_delay * (2 ^ attempt)

\* What one invocation of func does: it returns a value or raises an error;
\* both carry the number of the attempt, to tell one from another.
Returned(attempt) == [ok |-> TRUE, kind |-> "value", attempt |-> attempt]
Raised(kind, attempt) == [ok |-> FALSE, kind |-> kind, attempt |-> attempt]

\* utils.py 56: last_exception = None
NoException == [ok |-> FALSE, kind |-> "None", attempt |-> -1]

\* utils.py 75 without an exception to raise: `raise None` is a TypeError.
RaiseNone == [ok |-> FALSE, kind |-> "TypeError", attempt |-> -1]

\* utils.py 58-75: one iteration of the loop up to its next await, the sleep
\* of line 69, or to the end of the wrapper.
RetryAttempt ==
    /\ r_pc = "call"
    /\ IF r_attempt > r_max_retries
       THEN \* range(max_retries + 1) is exhausted: line 75
            /\ r_pc' = "raised"
            /\ r_result' = IF r_last_exception = NoException THEN RaiseNone ELSE r_last_exception
            /\ UNCHANGED <<r_calls, r_waits, r_last_exception>>
       ELSE \E outcome \in {Returned(r_attempt)} \cup {Raised(k, r_attempt) : k \in ErrorKinds} :
            /\ r_calls' = Append(r_calls, outcome)
            /\ IF outcome.ok
               THEN \* line 60
                    /\ r_pc' = "returned"
                    /\ r_result' = outcome
                    /\ UNCHANGED <<r_waits, r_last_exception>>
               ELSE IF outcome.kind \notin r_retryable
               THEN \* line 61 does not catch it
                    /\ r_pc' = "raised"
                    /\ r_result' = outcome
                    /\ UNCHANGED <<r_waits, r_last_exception>>
               ELSE \* lines 62-73
                    /\ r_last_exception' = outcome
                    /\ IF r_attempt < r_max_retries
                       THEN /\ r_waits' = Append(r_waits, WaitTime(r_retry_delay, r_attempt))
                            /\ r_pc' = "sleep"
                            /\ UNCHANGED r_result
                       ELSE \* the last iteration: line 75
                            /\ r_pc' = "raised"
                            /\ r_result' = outcome
                            /\ UNCHANGED r_waits
    /\ UNCHANGED <<r_max_retries, r_retry_delay, r_retryable, r_attempt>>
    /\ UNCHANGED <<rlvars, exvars, fetchvars, outvars, resvars, purevars, budgetvars>>

\* utils.py 69, 58: the sleep is over, the loop goes to the next attempt.
RetryWake ==
    /\ r_pc = "sleep"
    /\ r_attempt' = r_attempt + 1
    /\ r_pc' = "call"
    /\ UNCHANGED <<r_max_retries, r_retry_delay, r_retryable, r_calls, r_waits,
                   r_last_exception, r_result>>
    /\ UNCHANGED <<rlvars, exvars, fetchvars, outvars, resvars, purevars, budgetvars>>

\* utils.py 54-56: the wrapper is called.
RetryStart(maxes, delays, retryables) ==
    /\ r_max_retries \in maxes
    /\ r_retry_delay \in delays
    /\ r_retryable \in retryables
    /\ r_attempt = 0
    /\ r_pc = "call"
    /\ r_calls = <<>>
    /\ r_waits = <<>>
    /\ r_last_exception = NoException
    /\ r_result = NoException

\* No wrapped function is being called.
RetryIdle ==
    /\ r_max_retries = 0 /\ r_retry_delay = 0 /\ r_retryable = {}
    /\ r_attempt = 0 /\ r_pc = "off"
    /\ r_calls = <<>> /\ r_waits = <<>>
    /\ r_last_exception = NoException /\ r_result = NoException

\* ------------------------------------------------ the time of one URL, in ms

\* Values of --timeout, in seconds (main.py 64).
Timeouts == 1..MaxTimeout

\* The times a goto call can take before it returns or times out.
NavigationTimes(timeout) == { 500 * k : k \in 0..(2 * timeout) }

\* browser_client.py 128: the timeout of goto, in ms.
GotoTimeout(timeout) == timeout * 1000

\* browser_client.py 134-138: the timeout handed to extract_download_url
\* after a navigation that took `navigated` ms, in seconds.
PipelineTimeout(timeout, navigated) == timeout

\* extractor.py 88: the timeout of one wait_for_selector, in ms.
SelectorTimeout(timeout) == (timeout * 1000) \div Len(selectors)

\* browser_client.py 128-138: goto returns within its timeout and the
\* pipeline is called, or goto times out and the fetch returns None (141-143).
BudgetGoto ==
    /\ b_pc = "goto"
    /\ \E t \in NavigationTimes(b_timeout), returns \in BOOLEAN :
        /\ t <= GotoTimeout(b_timeout)
        /\ ~returns => t = GotoTimeout(b_timeout)
        /\ b_navigated' = t
        /\ IF returns
           THEN /\ b_budget' = PipelineTimeout(b_timeout, t)
                /\ b_pc' = "scan"
           ELSE /\ b_budget' = b_budget
                /\ b_pc' = "failed"
    /\ UNCHANGED <<b_timeout, b_selector, b_waited>>
    /\ UNCHANGED <<rlvars, exvars, fetchvars, outvars, resvars, purevars, retryvars>>

\* extractor.py 81-122: one selector of the static scan. wait_for_selector
\* times out after its share of the budget (the exception is caught, 121), or
\* the element is visible at once, with a link in it (the scan returns) or
\* without.
BudgetSelector ==
    /\ b_pc = "scan"
    /\ \E outcome \in {"timeout", "match", "link"} :
        /\ b_waited' = IF outcome = "timeout"
                       THEN b_waited + SelectorTimeout(b_budget)
                       ELSE b_waited
        /\ IF outcome = "link" \/ b_selector = Len(selectors)
           THEN b_pc' = "done" /\ b_selector' = b_selector
           ELSE b_pc' = "scan" /\ b_selector' = b_selector + 1
    /\ UNCHANGED <<b_timeout, b_navigated, b_budget>>
    /\ UNCHANGED <<rlvars, exvars, fetchvars, outvars, resvars, purevars, retryvars>>

\* No URL is being timed.
BudgetIdle ==
    /\ b_timeout = 0 /\ b_pc = "off" /\ b_navigated = 0
    /\ b_budget = 0 /\ b_selector = 1 /\ b_waited = 0

UtilsIdle == PureIdle /\ RetryIdle /\ BudgetIdle

\* ---------------------------------------------------- BrowserClient, main

Fetches == 1..NumFetches

\* The coroutines that call initialize() or cleanup(): main (0), and each
\* fetch for its lazy initialize().
Callers == 0..NumFetches

\* browser_client.py 62: the default max_requests_per_minute.
DefaultCap == 10

\* browser_client.py 159-161
ListenerPatterns == {"m3u8", "mpd", "video", "media", "stream", "mp4", "download"}

\* browser_client.py 154
ListenerResourceTypes == {"fetch", "xhr", "media"}

FetchDigits == <<"1", "2", "3", "4", "5", "6", "7", "8", "9">>

\* The stream manifest that the page of fetch f requests; every page has
\* its own, so that a captured URL tells which page's listener captured it.
StreamUrl(f) == "https://h" \o FetchDigits[f] \o ".example.com/live.m3u8"

\* The network responses of the page of fetch f: its manifest by XHR, and
\* the document itself.
Responses(f) ==
    { [resource_type |-> "xhr", url |-> StreamUrl(f)],
      [resource_type |-> "document", url |-> "https://site.example.com/video/" \o FetchDigits[f]] }

\* The pages a fetch may find after navigation.
FetchPages ==
    { EmptyPage,
      MakePage(Element(UrlStatic, None, None, "ok"), NoElement, NoElement, <<>>, <<>>),
      MakePage(Element(UrlBadScheme, None, None, "ok"), NoElement, NoElement, <<>>, <<>>),
      MakePage(NoElement, NoElement, NoElement, <<[src |-> Raises, sources |-> <<>>]>>, <<UrlEmbed>>),
      MakePage(NoElement, NoElement, NoElement, <<>>, <<UrlEmbed>>) }

\* browser_client.py 163: xhr_responses[url] = url; a dict keeps the place
\* of a key that is already present.
DictInsert(d, url) ==
    IF \E i \in DOMAIN d : d[i] = url THEN d ELSE Append(d, url)

\* browser_client.py 154-163: what _handle_response leaves in the dict.
HandleResponse(d, response) ==
    IF /\ response.resource_type \in ListenerResourceTypes
       /\ \E pattern \in ListenerPatterns : Contains(response.url, pattern)
    THEN DictInsert(d, response.url)
    ELSE d

\* main.py 25-35, a process_url that lets the exception through.
ProcessUrlNoCatch(outcome) == outcome

\* main.py 25-35: process_url turns an exception of fetch_and_extract and a
\* falsy result into None.
ProcessUrl(outcome) ==
    IF outcome = Raises THEN None
    ELSE IF Truthy(outcome) THEN outcome
    ELSE None

\* browser_client.py 141, an except clause for navigation errors only.
CaughtOnlyNavigation(step) == step = "goto"

\* browser_client.py 141: `except Exception` catches the failure of every
\* step of the try block.
Caught(step) == step \in {"listener", "goto", "pipeline"}

\* browser_client.py 144-145, a close that is skipped when the body failed.
ClosesPageOnSuccessOnly(failed_body) == ~failed_body

\* browser_client.py 144-145: `finally` closes the page on every exit of the
\* try block.
ClosesPage(failed_body) == TRUE

\* fetch_and_extract is left: by return of value (exc = "none") or by the
\* exception raised at step exc; process_url (main.py 25-35) takes it over.
Leave(f, value, exc) ==
    /\ fpc' = [fpc EXCEPT ![f] = IF exc = "none" THEN "returned" ELSE "raised"]
    /\ fres' = [fres EXCEPT ![f] = value]
    /\ fexc' = [fexc EXCEPT ![f] = exc]
    /\ task_result' = [task_result EXCEPT ![f] =
                          ProcessUrl(IF exc = "none" THEN value ELSE Raises)]

\* The try block (lines 121-143) is left, after a failure of its body or
\* not, with the value to return or with the uncaught exception exc; the
\* page is closed next (line 145).
EndBody(f, value, exc, failed_body) ==
    IF ClosesPage(failed_body)
    THEN /\ fpc' = [fpc EXCEPT ![f] = "close"]
         /\ fres' = [fres EXCEPT ![f] = value]
         /\ fexc' = [fexc EXCEPT ![f] = exc]
         /\ UNCHANGED task_result
    ELSE Leave(f, value, exc)

\* line 140: the try block returns download_url.
BodyReturns(f, value) ==
    /\ failed' = failed
    /\ EndBody(f, value, "none", FALSE)

\* A step of the try block raises: lines 141-143 catch it and return None.
BodyFails(f, step) ==
    /\ failed' = [failed EXCEPT ![f] = @ \cup {step}]
    /\ IF Caught(step)
       THEN EndBody(f, None, "none", TRUE)
       ELSE EndBody(f, None, step, TRUE)

\* browser_client.py 82-85: initialize() is called and runs to its first
\* await, the start of a Playwright driver. There is no test of what the
\* client holds already: every call goes through all of the three awaits.
InitializeCall(c) ==
    /\ init_pc[c] = "idle"
    /\ init_calls' = init_calls + 1
    /\ init_pc' = [init_pc EXCEPT ![c] = "start"]
    /\ UNCHANGED <<browser, context, drivers_running, launched, contexts_created,
                   open_browsers, open_contexts, cleanup_calls, last_call,
                   init_browser, closing>>

\* browser_client.py 85-86: start() is answered. The driver is kept in a
\* local only, and launch is awaited next; an exception leaves initialize().
StartReturns(c, ok) ==
    /\ drivers_running' = IF ok THEN drivers_running + 1 ELSE drivers_running
    /\ init_pc' = [init_pc EXCEPT ![c] = IF ok THEN "launch" ELSE "idle"]
    /\ last_call' = IF ok THEN last_call ELSE <<"initialize", "raised">>
    /\ UNCHANGED <<browser, context, launched, contexts_created, open_browsers,
                   open_contexts, init_calls, cleanup_calls, init_browser, closing>>

\* browser_client.py 86-87: launch is answered. The k-th browser launched
\* has the id k; it is stored in self.browser and new_context is called on
\* it before the next suspension.
LaunchReturns(c, ok) ==
    /\ IF ok
       THEN /\ launched' = launched + 1
            /\ browser' = launched + 1
            /\ open_browsers' = open_browsers \cup {launched + 1}
            /\ init_browser' = [init_browser EXCEPT ![c] = launched + 1]
            /\ init_pc' = [init_pc EXCEPT ![c] = "new_context"]
            /\ UNCHANGED last_call
       ELSE /\ init_pc' = [init_pc EXCEPT ![c] = "idle"]
            /\ last_call' = <<"initialize", "raised">>
            /\ UNCHANGED <<launched, browser, open_browsers, init_browser>>
    /\ UNCHANGED <<context, drivers_running, contexts_created, open_contexts,
                   init_calls, cleanup_calls, closing>>

\* browser_client.py 87-91: new_context is answered. The context (it has
\* the id of its browser) is stored in self.context and initialize()
\* returns; an exception leaves initialize() with self.browser set.
NewContextReturns(c, ok) ==
    /\ IF ok
       THEN /\ contexts_created' = contexts_created + 1
            /\ context' = init_browser[c]
            /\ open_contexts' = open_contexts \cup {init_browser[c]}
            /\ last_call' = <<"initialize", "returned">>
       ELSE /\ last_call' = <<"initialize", "raised">>
            /\ UNCHANGED <<contexts_created, context, open_contexts>>
    /\ init_pc' = [init_pc EXCEPT ![c] = "idle"]
    /\ init_browser' = [init_browser EXCEPT ![c] = 0]
    /\ UNCHANGED <<browser, drivers_running, launched, open_browsers,
                   init_calls, cleanup_calls, closing>>

\* browser_client.py 85-91: the await at which the initialize() of caller c
\* is suspended is answered, with a value (ok) or an exception.
InitializeResumes(c, ok) ==
    /\ init_pc[c] # "idle"
    /\ CASE init_pc[c] = "start" -> StartReturns(c, ok)
         [] init_pc[c] = "launch" -> LaunchReturns(c, ok)
         [] init_pc[c] = "new_context" -> NewContextReturns(c, ok)

\* The answer ok ends the initialize() of caller c: it returns.
InitializeReturns(c, ok) == ok /\ init_pc[c] = "new_context"

\* browser_client.py 95, a cleanup without the test of self.browser.
CleanupClosesAlways(b) == TRUE

\* browser_client.py 95: `if self.browser:`
CleanupCloses(b) == b # 0

\* browser_client.py 93-96: cleanup() is called. With a browser in
\* self.browser its close() is awaited; closing None raises at once; with no
\* browser cleanup() returns at once. No driver is stopped.
CleanupCall(c) ==
    /\ closing[c] = 0
    /\ cleanup_calls' = cleanup_calls + 1
    /\ IF CleanupCloses(browser)
       THEN IF browser = 0
            THEN /\ last_call' = <<"cleanup", "raised">>
                 /\ UNCHANGED closing
            ELSE /\ closing' = [closing EXCEPT ![c] = browser]
                 /\ UNCHANGED last_call
       ELSE /\ last_call' = <<"cleanup", "returned">>
            /\ UNCHANGED closing
    /\ UNCHANGED <<browser, context, drivers_running, launched, contexts_created,
                   open_browsers, open_contexts, init_calls, init_pc, init_browser>>

\* browser_client.py 96-97: close() is answered. With a value the browser
\* is closed, and with it its contexts, and cleanup() returns; an exception
\* of close() has no handler and leaves cleanup(), the browser as it was.
\* The fields browser and context keep their values.
CleanupReturns(c, ok) ==
    /\ closing[c] # 0
    /\ IF ok
       THEN /\ open_browsers' = open_browsers \ {closing[c]}
            /\ open_contexts' = open_contexts \ {closing[c]}
            /\ last_call' = <<"cleanup", "returned">>
       ELSE /\ last_call' = <<"cleanup", "raised">>
            /\ UNCHANGED <<open_browsers, open_contexts>>
    /\ closing' = [closing EXCEPT ![c] = 0]
    /\ UNCHANGED <<browser, context, drivers_running, launched, contexts_created,
                   init_calls, cleanup_calls, init_pc, init_browser>>

\* main.py 118-127: main creates the client and calls initialize() before
\* any task exists.
MainInitializeCall ==
    /\ main_pc = "start"
    /\ InitializeCall(0)
    /\ main_pc' = "initialize"
    /\ UNCHANGED <<xhr_responses, fpc, page_handle, page_dom, captured,
                   handed, owned, xhr_read, fres, fexc, failed, task_result,
                   download_urls, main_raised>>
    /\ UNCHANGED <<rlvars, exvars, outvars, utilvars, page_context>>

\* main.py 126-127: an await of main's initialize() is answered; when
\* initialize() raises, the finally clause runs next.
MainInitializeResumes ==
    /\ main_pc = "initialize"
    /\ \E ok \in BOOLEAN :
        /\ InitializeResumes(0, ok)
        /\ main_pc' = IF ~ok THEN "init_failed"
                      ELSE IF InitializeReturns(0, ok) THEN "gather"
                      ELSE "initialize"
    /\ UNCHANGED <<xhr_responses, fpc, page_handle, page_dom, captured,
                   handed, owned, xhr_read, fres, fexc, failed, task_result,
                   download_urls, main_raised>>
    /\ UNCHANGED <<rlvars, exvars, outvars, utilvars, page_context>>

\* browser_client.py 110, a fetch that goes on whatever the gate did.
GatePassedAlways(p) == TRUE

\* browser_client.py 110: the fetch goes on when wait_for_request returned.
GatePassed(p) == p = "acquired"

\* browser_client.py 116-119: the dict is cleared and new_page is awaited, on
\* the context the client holds at that moment.
AfterGate(f, ctx) ==
    /\ xhr_responses' = <<>>
    /\ fpc' = [fpc EXCEPT ![f] = "new_page"]
    /\ page_context' = [page_context EXCEPT ![f] = ctx]
    /\ UNCHANGED <<fres, fexc, task_result>>

\* main.py 24-26, browser_client.py 110-119: a task starts, passes the rate
\* limiter, clears xhr_responses and asks for a page. An exception of the
\* gate leaves fetch_and_extract at once.
FetchStart(f) ==
    /\ main_pc = "gather"
    /\ fpc[f] = "idle"
    /\ WaitForRequest(f)
    /\ IF GatePassed(pc'[f])
       THEN IF browser # 0 /\ context # 0
            THEN /\ AfterGate(f, context)
                 /\ UNCHANGED resvars
            ELSE \* lines 112-113: initialize() is called and awaited first
                 /\ InitializeCall(f)
                 /\ fpc' = [fpc EXCEPT ![f] = "initialize"]
                 /\ UNCHANGED <<xhr_responses, page_context, fres, fexc, task_result>>
       ELSE /\ pc'[f] = "gate_raised"
            /\ Leave(f, None, "gate")
            /\ UNCHANGED <<xhr_responses, page_context>>
            /\ UNCHANGED resvars
    /\ UNCHANGED <<browser, context, page_handle, page_dom, captured,
                   handed, owned, xhr_read, failed, download_urls, main_pc, main_raised>>
    /\ UNCHANGED <<exvars, outvars, utilvars>>

\* browser_client.py 112-119: an await of the initialize() that fetch f
\* called is answered. When initialize() returns, the fetch goes on with the
\* context that call has just stored; an exception leaves fetch_and_extract.
LazyInitResumes(f) ==
    /\ fpc[f] = "initialize"
    /\ \E ok \in BOOLEAN :
        /\ InitializeResumes(f, ok)
        /\ IF ~ok
           THEN /\ Leave(f, None, "initialize")
                /\ UNCHANGED <<xhr_responses, page_context>>
           ELSE IF InitializeReturns(f, ok)
           THEN AfterGate(f, context')
           ELSE UNCHANGED <<xhr_responses, page_context, fpc, fres, fexc, task_result>>
    /\ UNCHANGED <<page_handle, page_dom, captured, handed, owned, xhr_read,
                   failed, download_urls, main_pc, main_raised>>
    /\ UNCHANGED <<rlvars, exvars, outvars, utilvars>>

\* browser_client.py 119-128: new_page returns or raises; with the page, the
\* listener is registered (which may fail) and the navigation started.
NewPageReturns(f) ==
    /\ fpc[f] = "new_page"
    /\ \E o \in {"ok", "on_raises", "raises"} :
        CASE o = "ok" ->
                /\ page_handle' = [page_handle EXCEPT ![f] = "open"]
                /\ fpc' = [fpc EXCEPT ![f] = "goto"]
                /\ UNCHANGED <<fres, fexc, failed, task_result>>
          [] o = "on_raises" ->
                /\ page_handle' = [page_handle EXCEPT ![f] = "open"]
                /\ BodyFails(f, "listener")
          [] o = "raises" ->
                /\ Leave(f, None, "new_page")
                /\ UNCHANGED <<page_handle, failed>>
    /\ UNCHANGED <<browser, context, xhr_responses, page_dom, captured,
                   handed, owned, xhr_read, download_urls, main_pc, main_raised>>
    /\ UNCHANGED besidefetch

\* browser_client.py 128: goto returns with the page loaded, or raises
\* (timeout, network error).
GotoReturns(f) ==
    /\ fpc[f] = "goto"
    /\ \/ /\ fpc' = [fpc EXCEPT ![f] = "settle"]
          /\ UNCHANGED <<fres, fexc, failed, task_result>>
       \/ BodyFails(f, "goto")
    /\ UNCHANGED <<browser, context, xhr_responses, page_handle, page_dom, captured,
                   handed, owned, xhr_read, download_urls, main_pc, main_raised>>
    /\ UNCHANGED besidefetch

\* browser_client.py 131-138: the settle delay is over, extract_download_url
\* is called and suspends in the static scan (extractor.py 86).
Settled(f) ==
    /\ fpc[f] = "settle"
    /\ fpc' = [fpc EXCEPT ![f] = "static"]
    /\ UNCHANGED <<browser, context, xhr_responses, page_handle, page_dom,
                   captured, handed, owned, xhr_read, fres, fexc, failed,
                   task_result, download_urls, main_pc, main_raised>>
    /\ UNCHANGED besidefetch

\* extractor.py 31-41: the static scan ends on the page as it is by then;
\* without a link the captured responses are read at once, as they are at
\* that moment, and without a match there the pipeline suspends in the
\* media-element scan.
ExtractStatic(f) ==
    /\ fpc[f] = "static"
    /\ \E dom \in FetchPages :
        LET r1 == TryFindDownloadLink(dom)
            r2 == AnalyzeXhrResponses(xhr_responses)
        IN  IF Truthy(r1)
            THEN /\ BodyReturns(f, r1)
                 /\ UNCHANGED <<page_dom, handed, owned, xhr_read>>
            ELSE /\ handed' = [handed EXCEPT ![f] = xhr_responses]
                 /\ owned' = [owned EXCEPT ![f] = captured[f]]
                 /\ xhr_read' = [xhr_read EXCEPT ![f] = TRUE]
                 /\ IF Truthy(r2)
                    THEN /\ BodyReturns(f, r2)
                         /\ UNCHANGED page_dom
                    ELSE /\ page_dom' = [page_dom EXCEPT ![f] = dom]
                         /\ fpc' = [fpc EXCEPT ![f] = "dom"]
                         /\ UNCHANGED <<fres, fexc, failed, task_result>>
    /\ UNCHANGED <<browser, context, xhr_responses, page_handle,
                   captured, download_urls, main_pc, main_raised>>
    /\ UNCHANGED besidefetch

\* extractor.py 41-51: the media-element and embedded-frame scans end the
\* pipeline: with a URL, with None, or with the exception of a failed read.
ExtractDom(f) ==
    /\ fpc[f] = "dom"
    /\ LET r == ExtractFromDom(page_dom[f]) IN
       IF r = Raises THEN BodyFails(f, "pipeline") ELSE BodyReturns(f, r)
    /\ page_dom' = [page_dom EXCEPT ![f] = EmptyPage]
    /\ UNCHANGED <<browser, context, xhr_responses, page_handle,
                   captured, handed, owned, xhr_read, download_urls, main_pc, main_raised>>
    /\ UNCHANGED besidefetch

\* browser_client.py 145: page.close() returns, or raises because the page
\* is already gone; either way the handle is no longer open. A failure of
\* close replaces what the try block was leaving with.
PageCloseReturns(f) ==
    /\ fpc[f] = "close"
    /\ page_handle' = [page_handle EXCEPT ![f] = "closed"]
    /\ \/ Leave(f, fres[f], fexc[f])
       \/ Leave(f, None, "close")
    \* the listener and the locals of the call are gone
    /\ UNCHANGED page_dom
    /\ captured' = [captured EXCEPT ![f] = {}]
    /\ handed' = [handed EXCEPT ![f] = <<>>]
    /\ owned' = [owned EXCEPT ![f] = {}]
    /\ xhr_read' = [xhr_read EXCEPT ![f] = FALSE]
    /\ UNCHANGED <<browser, context, xhr_responses, failed, download_urls,
                   main_pc, main_raised>>
    /\ UNCHANGED besidefetch

\* browser_client.py 123-125, 147-166: a response of the page of fetch f
\* arrives while its listener is registered; _handle_response stores it in
\* the client's dict.
Response(f) ==
    /\ fpc[f] \in {"goto", "settle", "static", "dom", "close"}
    /\ \E response \in Responses(f) :
        /\ response.url \notin captured[f]
        /\ xhr_responses' = HandleResponse(xhr_responses, response)
        /\ captured' = [captured EXCEPT ![f] =
                          IF HandleResponse(<<>>, response) # <<>>
                          THEN @ \cup {response.url} ELSE @]
    /\ UNCHANGED <<browser, context, fpc, page_handle, page_dom, handed, owned, xhr_read,
                   fres, fexc, failed, task_result, download_urls, main_pc, main_raised>>
    /\ UNCHANGED besidefetch

\* main.py 130: the results that are truthy, in the order of the URLs.
RECURSIVE DownloadUrlsFrom(_, _)
DownloadUrlsFrom(results, f) ==
    IF f > NumFetches THEN <<>>
    ELSE IF Truthy(results[f])
         THEN <<results[f]>> \o DownloadUrlsFrom(results, f + 1)
         ELSE DownloadUrlsFrom(results, f + 1)

\* main.py 129, a wait that ends with the first task that is done.
MainGatherEarly ==
    /\ main_pc = "gather"
    /\ \E f \in Fetches : task_result[f] # "pending"
    /\ download_urls' = DownloadUrlsFrom(
                            [f \in Fetches |-> IF task_result[f] = "pending"
                                                THEN None ELSE task_result[f]], 1)
    /\ main_pc' = "cleanup"
    /\ UNCHANGED <<browser, context, xhr_responses, fpc, page_handle, page_dom,
                   captured, handed, owned, xhr_read, fres, fexc, failed, task_result,
                   main_raised>>
    /\ UNCHANGED besidefetch

\* main.py 129-130: gather returns when every task is done, and raises as
\* soon as one task has raised (return_exceptions=False).
MainGather ==
    /\ main_pc = "gather"
    /\ IF \E f \in Fetches : task_result[f] = Raises
       THEN /\ main_raised' = TRUE
            /\ UNCHANGED download_urls
       ELSE /\ \A f \in Fetches : task_result[f] # "pending"
            /\ download_urls' = DownloadUrlsFrom(task_result, 1)
            /\ UNCHANGED main_raised
    /\ main_pc' = "cleanup"
    /\ UNCHANGED <<browser, context, xhr_responses, fpc, page_handle, page_dom,
                   captured, handed, owned, xhr_read, fres, fexc, failed, task_result>>
    /\ UNCHANGED besidefetch

\* main.py 131-132: the finally clause calls cleanup(); an exception of the
\* try block goes on after it.
MainCleanupCall ==
    /\ main_pc \in {"cleanup", "init_failed"}
    /\ CleanupCall(0)
    /\ LET raising == main_raised \/ main_pc = "init_failed" IN
       main_pc' = IF closing'[0] # 0
                  THEN IF raising THEN "closing_raised" ELSE "closing"
                  ELSE IF raising \/ last_call' = <<"cleanup", "raised">>
                       THEN "raised" ELSE "collected"
    /\ UNCHANGED <<xhr_responses, fpc, page_handle, page_dom,
                   captured, handed, owned, xhr_read, fres, fexc, failed, task_result,
                   download_urls, main_raised>>
    /\ UNCHANGED <<rlvars, exvars, outvars, utilvars, page_context>>

\* main.py 132: the close() that cleanup() awaits is answered and cleanup()
\* returns to main, or raises: its exception leaves main like one of the try
\* block.
MainCleanupReturns ==
    /\ main_pc \in {"closing", "closing_raised"}
    /\ \E ok \in BOOLEAN :
        /\ CleanupReturns(0, ok)
        /\ main_pc' = IF ok /\ main_pc = "closing" THEN "collected" ELSE "raised"
    /\ UNCHANGED <<xhr_responses, fpc, page_handle, page_dom,
                   captured, handed, owned, xhr_read, fres, fexc, failed, task_result,
                   download_urls, main_raised>>
    /\ UNCHANGED <<rlvars, exvars, outvars, utilvars, page_context>>

\* main.py 166: an exception that leaves main ends the process with the
\* status 1 of an uncaught exception.
UncaughtExit == 1

\* main.py 157-162
ExitStatus(links) == IF links = <<>> THEN 1 ELSE 0

\* main.py 134-162: the links are deduplicated and handed to write_links and
\* write_idm_script, and main returns the exit status; an exception that
\* left the try block ends the process instead.
MainFinish ==
    /\ main_pc \in {"collected", "raised"}
    /\ IF main_pc = "collected"
       THEN /\ unique_links' = DeduplicateLinks(download_urls)
            /\ exit_code' = ExitStatus(unique_links')
       ELSE /\ exit_code' = UncaughtExit
            /\ UNCHANGED unique_links
    /\ main_pc' = "exited"
    /\ UNCHANGED <<browser, context, xhr_responses, fpc, page_handle, page_dom,
                   captured, handed, owned, xhr_read, fres, fexc, failed, task_result,
                   download_urls, main_raised>>
    /\ UNCHANGED <<rlvars, exvars, resvars, utilvars, page_context>>

\* One BrowserClient used through initialize() and cleanup() alone, called
\* by coroutines of one event loop in any order, one call at a time each.
ClientInitializeCall(c) ==
    /\ main_pc = "api"
    /\ init_calls + cleanup_calls < MaxCalls
    /\ closing[c] = 0
    /\ InitializeCall(c)
    /\ UNCHANGED <<xhr_responses, fpc, page_handle, page_dom, captured,
                   handed, owned, xhr_read, fres, fexc, failed, task_result,
                   download_urls, main_pc, main_raised>>
    /\ UNCHANGED <<rlvars, exvars, outvars, utilvars, page_context>>

ClientInitializeResumes(c) ==
    /\ main_pc = "api"
    /\ \E ok \in BOOLEAN : InitializeResumes(c, ok)
    /\ UNCHANGED <<xhr_responses, fpc, page_handle, page_dom, captured,
                   handed, owned, xhr_read, fres, fexc, failed, task_result,
                   download_urls, main_pc, main_raised>>
    /\ UNCHANGED <<rlvars, exvars, outvars, utilvars, page_context>>

ClientCleanupCall(c) ==
    /\ main_pc = "api"
    /\ init_calls + cleanup_calls < MaxCalls
    /\ init_pc[c] = "idle"
    /\ CleanupCall(c)
    /\ UNCHANGED <<xhr_responses, fpc, page_handle, page_dom, captured,
                   handed, owned, xhr_read, fres, fexc, failed, task_result,
                   download_urls, main_pc, main_raised>>
    /\ UNCHANGED <<rlvars, exvars, outvars, utilvars, page_context>>

ClientCleanupReturns(c) ==
    /\ main_pc = "api"
    /\ \E ok \in BOOLEAN : CleanupReturns(c, ok)
    /\ UNCHANGED <<xhr_responses, fpc, page_handle, page_dom, captured,
                   handed, owned, xhr_read, fres, fexc, failed, task_result,
                   download_urls, main_pc, main_raised>>
    /\ UNCHANGED <<rlvars, exvars, outvars, utilvars, page_context>>

\* browser_client.py 78-80 and the tasks before they run.
InitClient ==
    /\ browser = 0
    /\ context = 0
    /\ xhr_responses = <<>>
    /\ fpc = [f \in Fetches |-> "idle"]
    /\ page_handle = [f \in Fetches |-> "none"]
    /\ page_dom = [f \in Fetches |-> EmptyPage]
    /\ captured = [f \in Fetches |-> {}]
    /\ handed = [f \in Fetches |-> <<>>]
    /\ owned = [f \in Fetches |-> {}]
    /\ xhr_read = [f \in Fetches |-> FALSE]
    /\ fres = [f \in Fetches |-> None]
    /\ fexc = [f \in Fetches |-> "none"]
    /\ failed = [f \in Fetches |-> {}]
    /\ task_result = [f \in Fetches |-> "pending"]
    /\ download_urls = <<>>
    /\ main_raised = FALSE
    /\ page_context = [f \in Fetches |-> 0]
    /\ unique_links = <<>>
    /\ exit_code = -1
    /\ drivers_running = 0
    /\ launched = 0
    /\ contexts_created = 0
    /\ open_browsers = {}
    /\ open_contexts = {}
    /\ init_calls = 0
    /\ cleanup_calls = 0
    /\ last_call = <<"none", "none">>
    /\ init_pc = [c \in Callers |-> "idle"]
    /\ init_browser = [c \in Callers |-> 0]
    /\ closing = [c \in Callers |-> 0]

\* No batch is running.
FetchIdle == InitClient /\ main_pc = "off"

\* The batch of main.py with --delay 0: the rate limiter lets every fetch
\* through without suspending it, or (cap 0) fails every call.
InitFetch ==
    /\ InitLimiter({0}, {0, DefaultCap})
    /\ ExtractIdle
    /\ UtilsIdle
    /\ InitClient
    /\ main_pc = "start"

NextFetch ==
    \/ MainInitializeCall
    \/ MainInitializeResumes
    \/ \E f \in Fetches : FetchStart(f)
    \/ \E f \in Fetches : NewPageReturns(f)
    \/ \E f \in Fetches : GotoReturns(f)
    \/ \E f \in Fetches : Settled(f)
    \/ \E f \in Fetches : ExtractStatic(f)
    \/ \E f \in Fetches : ExtractDom(f)
    \/ \E f \in Fetches : PageCloseReturns(f)
    \/ \E f \in Fetches : Response(f)
    \/ MainGather
    \/ MainCleanupCall
    \/ MainCleanupReturns
    \/ MainFinish

SpecFetch == InitFetch /\ [][NextFetch]_vars

InitExtract ==
    /\ InitLimiter({0}, {MaxCap})
    /\ FetchIdle
    /\ UtilsIdle
    /\ ex_page \in Pages
    /\ ex_xhr \in XhrSets
    /\ ex_pc = "static"
    /\ ex_result = None
    /\ ex_warned = FALSE
    /\ ex_static = None
    /\ ex_clicked = {}

NextExtract ==
    \/ ExStatic
    \/ ExXhr
    \/ ExVideo
    \/ ExIframe

SpecExtract == InitExtract /\ [][NextExtract]_vars

InitRL ==
    /\ InitLimiter(Delays, Caps)
    /\ ExtractIdle
    /\ FetchIdle
    /\ UtilsIdle

NextRL ==
    \/ Tick
    \/ \E c \in Tasks : Call(c)
    \/ \E c \in Tasks : Grant(c)
    \/ \E c \in Tasks : WakeCap(c)
    \/ \E c \in Tasks : WakeDelay(c)

SpecRL == InitRL /\ [][NextRL]_vars

\* Fetches started on a client on which initialize() was not called, with
\* --delay 0.
InitLazy ==
    /\ InitLimiter({0}, {DefaultCap})
    /\ ExtractIdle
    /\ UtilsIdle
    /\ InitClient
    /\ main_pc = "gather"

NextLazy ==
    \/ \E f \in Fetches : FetchStart(f)
    \/ \E f \in Fetches : LazyInitResumes(f)
    \/ \E f \in Fetches : NewPageReturns(f)
    \/ \E f \in Fetches : GotoReturns(f)
    \/ \E f \in Fetches : Settled(f)
    \/ \E f \in Fetches : ExtractStatic(f)
    \/ \E f \in Fetches : ExtractDom(f)
    \/ \E f \in Fetches : PageCloseReturns(f)
    \/ \E f \in Fetches : Response(f)

SpecLazy == InitLazy /\ [][NextLazy]_vars

\* The limiter with a cap of at least 1, every task calling it; the clock
\* moves from one due sleep to the next.
InitRLLive ==
    /\ InitLimiter(Delays, Caps \ {0})
    /\ ExtractIdle
    /\ FetchIdle
    /\ UtilsIdle

NextRLLive ==
    \/ Elapse
    \/ \E c \in Tasks : Call(c)
    \/ \E c \in Tasks : Grant(c)
    \/ \E c \in Tasks : WakeCap(c)
    \/ \E c \in Tasks : WakeDelay(c)

\* The event loop runs every task that is ready (a call made by gather, a
\* released lock handed to the first waiter, a sleep that is due), and time
\* passes.
FairRLLive ==
    /\ WF_vars(Elapse)
    /\ \A c \in Tasks :
        /\ WF_vars(Call(c))
        /\ WF_vars(Grant(c))
        /\ WF_vars(WakeCap(c))
        /\ WF_vars(WakeDelay(c))

SpecRLLive == InitRLLive /\ [][NextRLLive]_vars /\ FairRLLive

\* The limiter of a client that is not asked for a request.
LimiterIdle == InitLimiter({0}, {DefaultCap})

InitClientApi ==
    /\ LimiterIdle
    /\ ExtractIdle
    /\ UtilsIdle
    /\ InitClient
    /\ main_pc = "api"

NextClient ==
    \/ \E c \in Callers : ClientInitializeCall(c)
    \/ \E c \in Callers : ClientInitializeResumes(c)
    \/ \E c \in Callers : ClientCleanupCall(c)
    \/ \E c \in Callers : ClientCleanupReturns(c)

SpecClient == InitClientApi /\ [][NextClient]_vars

InitPure ==
    /\ LimiterIdle
    /\ ExtractIdle
    /\ FetchIdle
    /\ RetryIdle
    /\ BudgetIdle
    /\ v_url \in ValidityInputs /\ v_valid = FALSE /\ v_pc = "call"
    /\ d_links \in LinkLists /\ d_result = <<>> /\ d_pc = "call"

NextPure ==
    \/ CheckValid
    \/ Deduplicate

SpecPure == InitPure /\ [][NextPure]_vars

InitRetry ==
    /\ LimiterIdle
    /\ ExtractIdle
    /\ FetchIdle
    /\ PureIdle
    /\ BudgetIdle
    /\ RetryStart(RetryMaxes, RetryDelays, RetryableSets)

NextRetry ==
    \/ RetryAttempt
    \/ RetryWake

SpecRetry == InitRetry /\ [][NextRetry]_vars

\* One URL, from the call of goto to the end of the static scan.
InitBudget ==
    /\ LimiterIdle
    /\ ExtractIdle
    /\ FetchIdle
    /\ PureIdle
    /\ RetryIdle
    /\ b_timeout \in Timeouts
    /\ b_pc = "goto"
    /\ b_navigated = 0
    /\ b_budget = 0
    /\ b_selector = 1
    /\ b_waited = 0

NextBudget ==
    \/ BudgetGoto
    \/ BudgetSelector

SpecBudget == InitBudget /\ [][NextBudget]_vars

\* ---------------------------------------------------------------- claims

InSection(c) == pc[c] \in {"cap_sleep", "delay_sleep"}

\* Number of recorded completions in the trailing window (t - 60, t].
WindowCount(t) ==
    Cardinality({i \in DOMAIN completions :
                    completions[i] > t - Window /\ completions[i] <= t})

\* C1: no trailing 60-second window (t-60, t] holds more than the cap of
\* recorded acquire completions. The count of a window only rises at a
\* completion, so the windows ending at the completions decide it.
C1_CapPerWindow ==
    \A i \in DOMAIN completions :
        WindowCount(completions[i]) <= max_requests_per_minute

\* C1 witness: a task waited for the cap and recorded, with more completions
\* in the history than the cap allows per window.
C1_Witness ==
    /\ max_requests_per_minute >= 2
    /\ Len(completions) > max_requests_per_minute
    /\ \E c \in Tasks : "cap" \in slept[c] /\ pc[c] = "acquired"

\* C2 (as claimed): any two consecutive recorded completions are at least
\* delay_between_requests apart, for every configured delay.
C2_MinDelayAlways ==
    \A i \in 1..(Len(completions) - 1) :
        completions[i + 1] - completions[i] >= delay_between_requests

\* C3: wait_for_request is one critical section: a task suspended in either
\* sleep holds the lock, and no other task is inside the section with it.
C3_CriticalSection ==
    \A c \in Tasks :
        InSection(c) =>
            /\ lock = c
            /\ \A d \in Tasks : d # c => ~InSection(d)

\* C3 witness: one task sleeps inside the section while another has called
\* wait_for_request and is held back in the lock's queue.
C3_Witness ==
    \E c, d \in Tasks :
        /\ c # d
        /\ InSection(c)
        /\ pc[d] = "waiting"
\* What the ordered pipeline is to return: the result of the first strategy,
\* in the order static scan, captured responses, media elements, embedded
\* frames, that yields a URL; None when no strategy yields one.
FirstStrategyResult(page, xhr) ==
    LET r1 == TryFindDownloadLink(page)
        r2 == AnalyzeXhrResponses(xhr)
        r3 == ExtractFromVideoSource(page)
        r4 == ExtractFromIframe(page)
    IN  IF Truthy(r1) THEN r1
        ELSE IF Truthy(r2) THEN r2
        ELSE IF Truthy(r3) THEN r3
        ELSE IF Truthy(r4) THEN r4
        ELSE None

\* C6 (as claimed): extract_download_url ends by returning, never by raising;
\* it returns the result of the lowest-numbered strategy that has a valid
\* candidate, and when none has one it returns None with the warning logged.
C6_FirstStrategyWins ==
    ex_pc \in {"done", "raised"} =>
        /\ ex_pc = "done"
        /\ ex_result = FirstStrategyResult(ex_page, ex_xhr)
        /\ ex_result = None => ex_warned

\* The media-element scan with every failing attribute read taken as
\* 'no match for this element'.
RECURSIVE SourcesIsolated(_, _)
SourcesIsolated(sources, j) ==
    IF j > Len(sources) THEN None
    ELSE IF Truthy(sources[j]) /\ IsValidDownloadUrl(sources[j]) THEN sources[j]
    ELSE SourcesIsolated(sources, j + 1)

RECURSIVE VideosIsolated(_, _)
VideosIsolated(videos, i) ==
    IF i > Len(videos) THEN None
    ELSE IF Truthy(videos[i].src) /\ IsValidDownloadUrl(videos[i].src)
         THEN videos[i].src
    ELSE LET s == SourcesIsolated(videos[i].sources, 1) IN
         IF s # None THEN s ELSE VideosIsolated(videos, i + 1)

\* The embedded-frame scan with every failing attribute read taken as
\* 'no match for this element'.
RECURSIVE IframesIsolated(_, _)
IframesIsolated(iframes, i) ==
    IF i > Len(iframes) THEN None
    ELSE IF Truthy(iframes[i]) /\ IsIframeVideoSource(iframes[i]) THEN iframes[i]
    ELSE IframesIsolated(iframes, i + 1)

IsolatedResult(page, xhr) ==
    LET r1 == TryFindDownloadLink(page)
        r2 == AnalyzeXhrResponses(xhr)
        r3 == VideosIsolated(page.videos, 1)
        r4 == IframesIsolated(page.iframes, 1)
    IN  IF Truthy(r1) THEN r1
        ELSE IF Truthy(r2) THEN r2
        ELSE IF Truthy(r3) THEN r3
        ELSE IF Truthy(r4) THEN r4
        ELSE None

\* C10 (as claimed): an attribute read or click that raises on one element
\* counts as no match for that element; the remaining elements of the
\* strategy and all later strategies are still tried, so the pipeline ends
\* by returning what they find.
C10_ElementFailuresIsolated ==
    ex_pc \in {"done", "raised"} =>
        /\ ex_pc = "done"
        /\ ex_result = IsolatedResult(ex_page, ex_xhr)
\* The URLs that only the listener of fetch g can have stored: the listener
\* is registered on the page of g (browser_client.py 123) and sees the
\* responses of that page alone.
CapturedByListenerOf(g) == {response.url : response \in Responses(g)}

SeqRange(q) == {q[i] : i \in DOMAIN q}

\* C4 (as claimed): the captured responses that the pipeline of a fetch
\* reads hold no URL stored by the response listener of another fetch.
C4_NoCrossFetchLeak ==
    \A f \in Fetches :
        xhr_read[f] =>
            \A g \in Fetches \ {f} :
                SeqRange(handed[f]) \cap CapturedByListenerOf(g) = {}

\* C5 (as claimed): every URL the own listener of a fetch stored before the
\* pipeline of that fetch reads the captured responses is among them.
C5_NoLostCaptures ==
    \A f \in Fetches :
        xhr_read[f] => owned[f] \subseteq SeqRange(handed[f])

Finished(f) == fpc[f] \in {"returned", "raised"}

\* C7: a fetch_and_extract call that has ended, by return or by exception,
\* leaves no page open, whatever path it took; hence no page is open once
\* all fetches have ended.
C7_PagesClosed ==
    \A f \in Fetches : Finished(f) => page_handle[f] # "open"

\* C7 witness: all fetches have ended, one after a failed navigation and one
\* with a URL, and both their pages were opened and are closed.
C7_Witness ==
    /\ \A f \in Fetches : Finished(f)
    /\ \E f, g \in Fetches :
        /\ "goto" \in failed[f] /\ page_handle[f] = "closed"
        /\ fpc[g] = "returned" /\ Truthy(fres[g]) /\ page_handle[g] = "closed"

\* C8: a failure of listener registration, navigation or the pipeline never
\* leaves fetch_and_extract as an exception: the call returns None, unless
\* the later close of the page fails itself.
C8_BodyFailuresAbsorbed ==
    \A f \in Fetches :
        /\ fpc[f] = "raised" => fexc[f] \in {"gate", "new_page", "close"}
        /\ (fpc[f] = "returned" /\ failed[f] # {}) => fres[f] = None

\* C8 witness: one fetch returned None after its pipeline raised, another
\* after its navigation raised.
C8_Witness ==
    \E f, g \in Fetches :
        /\ "pipeline" \in failed[f] /\ fpc[f] = "returned" /\ fres[f] = None
        /\ "goto" \in failed[g] /\ fpc[g] = "returned" /\ fres[g] = None

\* The URLs returned by the fetches f.. that returned one, in URL order.
RECURSIVE ReturnedUrlsFrom(_)
ReturnedUrlsFrom(f) ==
    IF f > NumFetches THEN <<>>
    ELSE IF fpc[f] = "returned" /\ Truthy(fres[f])
         THEN <<fres[f]>> \o ReturnedUrlsFrom(f + 1)
         ELSE ReturnedUrlsFrom(f + 1)

\* C9: no failing fetch aborts the batch: gather never raises into main, it
\* returns only when every fetch has ended, and download_urls then holds
\* exactly the URLs the fetches returned, in order; a failed fetch is
\* merely absent.
C9_BatchSurvivesFailures ==
    /\ ~main_raised
    /\ main_pc \in {"cleanup", "collected"} =>
        /\ \A f \in Fetches : Finished(f)
        /\ download_urls = ReturnedUrlsFrom(1)

\* C9 witness: the batch was collected with one fetch ended by an exception
\* and the URL of another in download_urls.
C9_Witness ==
    /\ main_pc = "collected"
    /\ \E f, g \in Fetches :
        /\ fpc[f] = "raised"
        /\ fpc[g] = "returned" /\ Truthy(fres[g])
        /\ fres[g] \in SeqRange(download_urls)

\* C14 (as claimed): the stored window request_times never holds more
\* timestamps than max_requests_per_minute, also right after a caller that
\* waited for the cap has recorded its own timestamp.
C14_StoredWindowWithinCap ==
    Len(request_times) <= max_requests_per_minute

\* C11: _is_valid_download_url is true exactly for the strings that start
\* with http:// or https:// and contain one of the seven markers; it
\* accepts https://cdn.example.com/video/abc.mp4 and rejects the empty
\* string.
C11_Markers == {".mp4", ".m3u8", ".mpd", "/media/", "/video/", "stream", "download"}

C11_ValidityPredicate ==
    v_pc = "done" =>
        /\ v_valid = ( /\ StartsWith(v_url, "http://") \/ StartsWith(v_url, "https://")
                       /\ \E m \in C11_Markers : Contains(v_url, m) )
        /\ v_url = "https://cdn.example.com/video/abc.mp4" => v_valid
        /\ v_url = "" => ~v_valid

\* C11 witness: the predicate accepted the URL the spec names.
C11_Witness ==
    /\ v_pc = "done"
    /\ v_url = "https://cdn.example.com/video/abc.mp4"
    /\ v_valid

\* C12 (as claimed): every URL of the list handed to write_links and
\* write_idm_script satisfies the validity predicate, whichever strategy
\* produced it.
C12_OutputValidated ==
    main_pc = "exited" =>
        \A i \in DOMAIN unique_links : IsValidDownloadUrl(unique_links[i])

\* The validity predicate as the spec states it.
C12_Validated(u) ==
    /\ StartsWith(u, "http://") \/ StartsWith(u, "https://")
    /\ \E m \in C11_Markers : Contains(u, m)

\* C12 (amended): every URL of the list handed downstream satisfies the
\* validity predicate, or it is a frame source that matches the allow-list
\* of video hosts, which is all the embedded-frame scan asks of it.
C12_OutputValidatedOrEmbed ==
    main_pc = "exited" =>
        \A i \in DOMAIN unique_links :
            \/ C12_Validated(unique_links[i])
            \/ \E host \in video_hosts : Contains(unique_links[i], host)

\* C12 witness: the list handed downstream holds a URL that passes the
\* validity predicate and a frame source that does not.
C12_Witness ==
    /\ main_pc = "exited"
    /\ \E i, j \in DOMAIN unique_links :
        /\ C12_Validated(unique_links[i])
        /\ ~C12_Validated(unique_links[j])

\* C13 (as claimed): when a fetch has its page, registers its listener and
\* starts to navigate, the captured-response set that its pipeline will be
\* handed is empty.
C13_EmptyAtRegistration ==
    [][ \A f \in Fetches :
            (fpc[f] = "new_page" /\ fpc'[f] = "goto") => xhr_responses = <<>> ]_vars

\* The place of the first occurrence of x in s.
FirstIndex(s, x) == CHOOSE i \in DOMAIN s : s[i] = x /\ \A k \in 1..(i - 1) : s[k] # x

\* C15: deduplicate_links returns every distinct non-empty input string
\* exactly once, in the order of the first occurrences, and nothing else;
\* [a, b, a, c] gives [a, b, c].
C15_Deduplicated ==
    d_pc = "done" =>
        /\ \A i, j \in DOMAIN d_result : i # j => d_result[i] # d_result[j]
        /\ SeqRange(d_result) = SeqRange(d_links) \ {""}
        /\ \A i, j \in DOMAIN d_result :
              i < j => FirstIndex(d_links, d_result[i]) < FirstIndex(d_links, d_result[j])
        /\ d_links = <<"a", "b", "a", "c">> => d_result = <<"a", "b", "c">>

\* C15 witness: the list of the spec's example was deduplicated.
C15_Witness ==
    /\ d_pc = "done"
    /\ d_links = <<"a", "b", "a", "c">>
    /\ d_result = <<"a", "b", "c">>

\* C16 (as claimed): initialize() creates no further browser and no further
\* context on a client that has a context already, so that after any number
\* of initialize() calls one browser and one context have been created: no
\* browser is launched while the client holds a context, and never more
\* than one browser or context is created.
C16_InitializeIdempotent ==
    [][ /\ launched' # launched => context = 0
        /\ launched' <= 1
        /\ contexts_created' <= 1 ]_vars

\* C17: cleanup() on a client on which initialize() was never called closes
\* nothing, raises nothing and changes nothing of the client.
C17_CleanupWithoutInitialize ==
    [][ (cleanup_calls' # cleanup_calls /\ init_calls = 0) =>
            /\ last_call' = <<"cleanup", "returned">>
            /\ UNCHANGED <<browser, context, open_browsers, open_contexts,
                           drivers_running, launched, contexts_created>> ]_vars

\* C17 witness: cleanup() returned on a client never initialized.
C17_Witness ==
    /\ init_calls = 0
    /\ cleanup_calls > 0
    /\ last_call = <<"cleanup", "returned">>
    /\ browser = 0 /\ context = 0

\* C18 (as claimed): once cleanup() has returned on an initialized client,
\* no driver, browser or context that initialize() acquired is still open.
C18_CleanupReleasesAll ==
    (last_call = <<"cleanup", "returned">> /\ context # 0) =>
        /\ drivers_running = 0
        /\ open_browsers = {}
        /\ open_contexts = {}

\* C19 (as claimed): a run with URLs exits with a non-zero status exactly
\* when the deduplicated list of the results it collected is empty, though
\* no exception of a fetch reached main; with a result it exits with 0.
C19_ExitStatus ==
    main_pc = "exited" =>
        /\ exit_code # 0 <=> DeduplicateLinks(download_urls) = <<>>
        /\ DeduplicateLinks(download_urls) # <<>> => exit_code = 0
        /\ ~main_raised

\* C20: the wrapper invokes func at most max_retries + 1 times, every
\* invocation but the last one failed, a success is returned at once, the
\* i-th wait is retry_delay * 2^(i-1) and follows the i-th failed attempt,
\* and after max_retries + 1 failures the error of the last attempt is
\* raised.
C20_RetryPolicy ==
    LET n == Len(r_calls) IN
    /\ n <= r_max_retries + 1
    /\ \A i \in 1..(n - 1) : ~r_calls[i].ok
    /\ r_pc = "returned" => (r_calls[n].ok /\ r_result = r_calls[n])
    /\ \A i \in DOMAIN r_waits :
          ~r_calls[i].ok /\ r_waits[i] = r_retry_delay * (2 ^ (i - 1))
    /\ r_pc \in {"call", "sleep"} => Len(r_waits) = n
    /\ (r_pc \in {"returned", "raised"} /\ n > 0) => Len(r_waits) = n - 1
    /\ (r_pc = "raised" /\ n > 0) => (~r_calls[n].ok /\ r_result = r_calls[n])
    /\ (r_pc = "raised" /\ \A i \in 1..n : r_calls[i].kind \in r_retryable) =>
          n = r_max_retries + 1

\* C20 witness: three retries, all four attempts failed, three waits were
\* made and the last error was raised.
C20_Witness ==
    /\ r_pc = "raised"
    /\ r_max_retries = 3
    /\ Len(r_calls) = 4
    /\ Len(r_waits) = 3
    /\ r_result = r_calls[4]

\* C21 (as claimed): wait_for_request suspends a caller no longer than the
\* cap and the delay require. While a caller sleeps in the critical section
\* the window is the one it pruned at its entry time current_time: the cap
\* sleep is due at max(entry, oldest + 60), and the delay sleep no later
\* than latest + delay, or than the moment it starts when that is later
\* (the cap sleep came first).
C21_NoOverWait ==
    \A c \in Tasks :
        /\ pc[c] = "cap_sleep" =>
              wake[c] = Max2(current_time[c], SeqMin(request_times) + Window)
        /\ pc[c] = "delay_sleep" =>
              wake[c] <= Max2(now, SeqMax(request_times) + delay_between_requests)

\* C22: with a cap of at least 1, every call of wait_for_request records
\* its timestamp, releases the lock and returns, whatever the delay and
\* however many callers queue for the lock.
C22_EveryCallReturns ==
    \A c \in Tasks : (pc[c] = "idle") ~> (pc[c] = "acquired" /\ lock # c)

\* C22 witness: every caller has returned, after callers queued for the lock
\* and one of them slept for the cap.
C22_Witness ==
    /\ \A c \in Tasks : pc[c] = "acquired"
    /\ lock = NoTask
    /\ Len(completions) = NumTasks
    /\ \E c \in Tasks : "cap" \in slept[c]

\* The steps of one fetch_and_extract call, in the order the claim gives
\* them, and the exits by an exception.
C23_Order ==
    { <<"idle", "initialize">>, <<"idle", "new_page">>, <<"idle", "raised">>,
      <<"initialize", "new_page">>, <<"initialize", "raised">>,
      <<"new_page", "goto">>, <<"new_page", "close">>, <<"new_page", "raised">>,
      <<"goto", "settle">>, <<"goto", "close">>,
      <<"settle", "static">>,
      <<"static", "dom">>, <<"static", "close">>,
      <<"dom", "close">>,
      <<"close", "returned">>, <<"close", "raised">> }

\* C23: within a fetch the gate is cleared first, then the page is opened,
\* the listener registered and the navigation started, then come the settle
\* delay, the pipeline and the close of the page; no page is asked for and
\* no navigation starts before the gate is cleared, and no response is
\* captured before the page is open and the listener registered.
C23_FetchOrder ==
    [][ \A f \in Fetches :
          /\ fpc'[f] # fpc[f] => <<fpc[f], fpc'[f]>> \in C23_Order
          /\ (fpc[f] = "idle" /\ fpc'[f] \in {"initialize", "new_page"}) =>
                pc'[f] = "acquired"
          /\ (fpc[f] # "goto" /\ fpc'[f] = "goto") =>
                (pc[f] = "acquired" /\ page_handle'[f] = "open")
          /\ captured'[f] \notin {captured[f], {}} =>
                (page_handle[f] = "open" /\ fpc[f] \notin {"idle", "initialize", "new_page"})
          /\ (page_handle[f] = "open" /\ page_handle'[f] = "closed") => fpc[f] = "close"
      ]_vars

\* C23 witness: a fetch went through all its steps and returned a URL.
C23_Witness ==
    \E f \in Fetches :
        /\ fpc[f] = "returned" /\ Truthy(fres[f])
        /\ pc[f] = "acquired"
        /\ page_handle[f] = "closed"

\* A fetch_and_extract call that has started and not ended.
InFlight(f) == fpc[f] \notin {"idle", "returned", "raised"}

\* C25: main calls cleanup() exactly once on every path that leaves its try
\* block, and never while a fetch is in flight: the browser of the client
\* stays open as long as one is.
C25_TeardownOnce ==
    /\ cleanup_calls <= 1
    /\ main_pc \in {"collected", "raised", "exited"} => cleanup_calls = 1
    /\ \A f \in Fetches :
          InFlight(f) => (cleanup_calls = 0 /\ browser \in open_browsers)

\* C25 witness: the run ended after a batch in which a fetch raised; cleanup
\* ran once and closed the one browser.
C25_Witness ==
    /\ main_pc = "exited"
    /\ cleanup_calls = 1
    /\ launched = 1 /\ open_browsers = {}
    /\ \E f \in Fetches : fpc[f] = "raised"

\* C26 (as claimed): when fetches start on a client that was not
\* initialized, no second context (and browser) is created, and every fetch
\* asks for its page on the same context.
C26_OneLazyContext ==
    /\ contexts_created <= 1
    /\ \A f, g \in Fetches :
          (page_context[f] # 0 /\ page_context[g] # 0) => page_context[f] = page_context[g]

\* The three attributes of an element, in the order of the claim.
C24_Attributes(element) ==
    <<element.href, element.data_download_url, element.data_video_url>>

\* A value read from an attribute passes the validity predicate.
C24_Passes(value) == value \notin {None, Raises, ""} /\ IsValidDownloadUrl(value)

\* The first attribute of the element, in order, that passes, when every read
\* before it returned; None when there is none.
C24_FirstPassing(element) ==
    LET attrs == C24_Attributes(element)
        hits == { k \in 1..3 :
                    /\ C24_Passes(attrs[k])
                    /\ \A j \in 1..(k - 1) : attrs[j] # Raises /\ ~C24_Passes(attrs[j]) }
    IN  IF ~element.present \/ hits = {} THEN None
        ELSE attrs[CHOOSE k \in hits : TRUE]

\* The selectors of the scan that denote a clickable control:
\* "a.download-button" and "button.download-button".
C24_Clickable == {1, 8}

\* C24: the static scan returns, for the first matched element that has one,
\* its first attribute in the order href, data-download-url, data-video-url
\* that passes the validity predicate; an element is clicked only when none
\* of its three attributes passed and its selector is a clickable control,
\* the popup re-scan is the only other origin of a result, and the scan
\* never returns a value that fails the validity predicate.
C24_StaticScan ==
    ex_pc \notin {"off", "static"} =>
        LET elements == ex_page.static
            yielding == { i \in DOMAIN selectors : C24_FirstPassing(elements[i]) # None }
        IN
        /\ ex_static = None \/ C24_Passes(ex_static)
        /\ \A i \in ex_clicked :
              /\ i \in C24_Clickable
              /\ elements[i].present
              /\ \A k \in 1..3 : ~C24_Passes(C24_Attributes(elements[i])[k])
        /\ \A i \in yielding :
              (\A j \in 1..(i - 1) : j \notin yielding /\ j \notin ex_clicked) =>
                  ex_static = C24_FirstPassing(elements[i])
        /\ (ex_static # None /\ \A i \in yielding : ex_static # C24_FirstPassing(elements[i])) =>
              /\ ex_clicked # {}
              /\ \E k \in DOMAIN popup_selectors : ex_static = ex_page.popup[k].href
        /\ (yielding = {} /\ ex_clicked = {}) => ex_static = None

\* C24 witness: the scan passed over an href that fails the predicate and
\* returned the data-download-url of the same element without a click,
\* although its selector is a clickable one.
C24_Witness ==
    /\ ex_pc \notin {"off", "static"}
    /\ ex_page.static[1].present
    /\ ex_page.static[1].href = UrlNoMarker
    /\ ex_static = ex_page.static[1].data_download_url
    /\ ex_static = UrlData
    /\ ex_clicked = {}

\* C27 (as claimed): the timeout handed to the pipeline is the configured
\* timeout less the time the navigation took, and navigation plus the waits
\* of the selector scan stay within the configured timeout.
C27_RemainingBudget ==
    b_pc \in {"scan", "done"} =>
        /\ b_budget * 1000 = b_timeout * 1000 - b_navigated
        /\ b_navigated + b_waited <= b_timeout * 1000

====
